---- MODULE Spec2Model ----
(***************************************************************************)
(* A model of the Provider class of src/hianime/zoro.ts: search (paginated *)
(* aggregation), findEpisodes, findEpisodeServer (watch metadata + HLS     *)
(* master playlist parsing) and normalizeQuery.                            *)
(*                                                                         *)
(* Strings the code inspects character by character (queries, playlist     *)
(* texts, manifest URLs, subtitle languages) are sequences of one-char     *)
(* strings.  Each async method is a call frame; one action is the code     *)
(* that runs between two suspension points (await fetch).                  *)
(***************************************************************************)
EXTENDS Naturals, Integers, Sequences, FiniteSets, TLC

VARIABLES apiURL, calls

vars == <<apiURL, calls>>

(***************************************************************************)
(* Bounds of the model.                                                    *)
(***************************************************************************)
MaxTokens == 4
MaxPages == 3
MaxResults == 2
MaxCount == 2
MaxSources == 2
MaxSubs == 2
MaxLines == 4

(***************************************************************************)
(* Characters and the character classes of JavaScript regular expressions. *)
(***************************************************************************)
UC == <<"A","B","C","D","E","F","G","H","I","J","K","L","M",
        "N","O","P","Q","R","S","T","U","V","W","X","Y","Z">>
LC == <<"a","b","c","d","e","f","g","h","i","j","k","l","m",
        "n","o","p","q","r","s","t","u","v","w","x","y","z">>

Range(f) == {f[i] : i \in DOMAIN f}

\* \d
IsDigit(ch) == ch \in {"0","1","2","3","4","5","6","7","8","9"}

\* \w
IsWord(ch) == IsDigit(ch) \/ ch \in Range(UC) \/ ch \in Range(LC) \/ ch = "_"

\* \s (the whitespace characters the model's alphabet has)
IsSpace(ch) == ch \in {" ", "\t", "\n", "\r"}

\* case folding of the /i flag
ToLower(ch) == IF ch \in Range(UC) THEN LC[CHOOSE i \in DOMAIN UC : UC[i] = ch] ELSE ch

\* \b before position i of s (between s[i-1] and s[i])
WordAt(s, i) == i >= 1 /\ i <= Len(s) /\ IsWord(s[i])
Boundary(s, i) == WordAt(s, i - 1) # WordAt(s, i)

\* the index after the longest run of digits (\d+, greedy) starting at i
RECURSIVE DigitsEnd(_, _)
DigitsEnd(s, i) == IF i <= Len(s) /\ IsDigit(s[i]) THEN DigitsEnd(s, i + 1) ELSE i

\* the index after the longest run of whitespace (\s*, greedy) starting at i
RECURSIVE SpaceEnd(_, _)
SpaceEnd(s, i) == IF i <= Len(s) /\ IsSpace(s[i]) THEN SpaceEnd(s, i + 1) ELSE i

\* String.prototype.startsWith at position i (1-based), case-sensitive
MatchAt(s, i, lit) ==
    /\ i + Len(lit) - 1 <= Len(s)
    /\ \A k \in 1..Len(lit) : s[i + k - 1] = lit[k]

\* a literal of a regular expression with the /i flag, at position i
MatchAtCI(s, i, lit) ==
    /\ i + Len(lit) - 1 <= Len(s)
    /\ \A k \in 1..Len(lit) : ToLower(s[i + k - 1]) = ToLower(lit[k])

startsWith(s, lit) == MatchAt(s, 1, lit)

\* String.prototype.trim
RECURSIVE TrimLeft(_)
TrimLeft(s) == IF s # <<>> /\ IsSpace(Head(s)) THEN TrimLeft(Tail(s)) ELSE s
RECURSIVE TrimRight(_)
TrimRight(s) ==
    IF s # <<>> /\ IsSpace(s[Len(s)]) THEN TrimRight(SubSeq(s, 1, Len(s) - 1)) ELSE s
trim(s) == TrimRight(TrimLeft(s))

(***************************************************************************)
(* normalizeQuery: the four replacements and the trim, in the code's order.*)
(***************************************************************************)
Season == <<"S","e","a","s","o","n">>
OrdinalSuffixes == {<<"s","t">>, <<"n","d">>, <<"r","d">>, <<"t","h">>}

\* .replace(/\b(\d+)(st|nd|rd|th)\b/g, "$1"), scanning from position i
RECURSIVE StripOrdinalsFrom(_, _)
StripOrdinalsFrom(s, i) ==
    IF i > Len(s) THEN <<>>
    ELSE LET j == DigitsEnd(s, i) IN
         IF /\ j > i
            /\ Boundary(s, i)
            /\ j + 1 <= Len(s)
            /\ <<s[j], s[j + 1]>> \in OrdinalSuffixes
            /\ Boundary(s, j + 2)
         THEN SubSeq(s, i, j - 1) \o StripOrdinalsFrom(s, j + 2)
         ELSE <<s[i]>> \o StripOrdinalsFrom(s, i + 1)
StripOrdinals(s) == StripOrdinalsFrom(s, 1)

\* .replace(/\s+/g, " ")
RECURSIVE CollapseFrom(_, _)
CollapseFrom(s, i) ==
    IF i > Len(s) THEN <<>>
    ELSE IF IsSpace(s[i]) THEN <<" ">> \o CollapseFrom(s, SpaceEnd(s, i))
    ELSE <<s[i]>> \o CollapseFrom(s, i + 1)
CollapseSpaces(s) == CollapseFrom(s, 1)

\* /(\d+)\s*Season/i matches at i: the index after the match, 0 when none
NumberSeasonEnd(s, i) ==
    LET j == DigitsEnd(s, i)
        k == SpaceEnd(s, j)
    IN  IF j > i /\ MatchAtCI(s, k, Season) THEN k + Len(Season) ELSE 0

\* .replace(/(\d+)\s*Season/i, "$1"): the first (leftmost) match only
ReplaceNumberSeason(s) ==
    LET M == {i \in 1..Len(s) : NumberSeasonEnd(s, i) > 0} IN
    IF M = {} THEN s
    ELSE LET i == CHOOSE m \in M : \A n \in M : m <= n
             j == DigitsEnd(s, i)
         IN  SubSeq(s, 1, j - 1) \o SubSeq(s, NumberSeasonEnd(s, i), Len(s))

\* /Season\s*(\d+)/i matches at i: the index of the number, 0 when none
SeasonNumberAt(s, i) ==
    LET k == SpaceEnd(s, i + Len(Season)) IN
    IF MatchAtCI(s, i, Season) /\ DigitsEnd(s, k) > k THEN k ELSE 0

\* .replace(/Season\s*(\d+)/i, "$1"): the first (leftmost) match only
ReplaceSeasonNumber(s) ==
    LET M == {i \in 1..Len(s) : SeasonNumberAt(s, i) > 0} IN
    IF M = {} THEN s
    ELSE LET i == CHOOSE m \in M : \A n \in M : m <= n
         IN  SubSeq(s, 1, i - 1) \o SubSeq(s, SeasonNumberAt(s, i), Len(s))

\* a slip: the season words are removed before the ordinal suffixes
normalizeQuerySeasonFirst(query) ==
    trim(CollapseSpaces(StripOrdinals(ReplaceSeasonNumber(ReplaceNumberSeason(query)))))

\* lines 204-213
normalizeQuery(query) ==
    trim(ReplaceSeasonNumber(ReplaceNumberSeason(CollapseSpaces(StripOrdinals(query)))))

(***************************************************************************)
(* encodeURIComponent, on the characters of the model's alphabet.          *)
(***************************************************************************)
Unreserved(ch) == IsWord(ch) \/ ch \in {"-", ".", "!", "~", "*", "'", "(", ")"}

PercentCode(ch) ==
    CASE ch = " "  -> <<"%","2","0">>
      [] ch = "\t" -> <<"%","0","9">>
      [] ch = "\n" -> <<"%","0","A">>
      [] ch = "\r" -> <<"%","0","D">>
      [] ch = "#"  -> <<"%","2","3">>
      [] ch = "/"  -> <<"%","2","F">>
      [] ch = ":"  -> <<"%","3","A">>
      [] ch = "="  -> <<"%","3","D">>
      [] ch = ","  -> <<"%","2","C">>
      [] ch = "?"  -> <<"%","3","F">>

RECURSIVE encodeURIComponent(_)
encodeURIComponent(s) ==
    IF s = <<>> THEN <<>>
    ELSE (IF Unreserved(Head(s)) THEN <<Head(s)>> ELSE PercentCode(Head(s)))
         \o encodeURIComponent(Tail(s))

(***************************************************************************)
(* The Provider instance and its call frames.                              *)
(***************************************************************************)
ApiURL == "https://d2dd7450351ba6fb.vercel.app"

CallIds == {"c1", "c2"}

NoResult == [kind |-> "none"]
Returned(v) == [kind |-> "value", value |-> v]
Thrown(e) == [kind |-> "error", error |-> e]

NoWatchData == [sources |-> <<>>, subtitles |-> <<>>]

\* a method not yet called: no locals, nothing fetched
IdleFrame ==
    [op |-> "none", pc |-> "idle", arg |-> <<>>,
     keyword |-> <<>>, allResults |-> <<>>, page |-> 0, hasNext |-> FALSE,
     serverName |-> "", watchData |-> NoWatchData, masterEntry |-> <<>>,
     fetched |-> <<>>, received |-> <<>>, result |-> NoResult]

\* a slip: allResults, page and watchData kept as fields of the instance, so that
\* resuming call c also writes them in every other unfinished call of the method
ResumeShared(cs, c, frame) ==
    [d \in DOMAIN cs |->
        IF d = c THEN frame
        ELSE IF cs[d].op = frame.op /\ cs[d].pc \notin {"returned", "thrown"}
             THEN [cs[d] EXCEPT !.allResults = frame.allResults,
                                !.page = frame.page,
                                !.watchData = frame.watchData]
             ELSE cs[d]]

\* lines 64-66, 145-148: the locals of a call are its own (const/let in the method
\* body): resuming call c writes frame c, and no other frame
Resume(cs, c, frame) == [cs EXCEPT ![c] = frame]

(***************************************************************************)
(* search                                                                  *)
(***************************************************************************)
SearchUrl(api, keyword, page) ==
    <<api, "/anime/zoro/", encodeURIComponent(keyword), "?page=", page>>

InfoUrl(api, id) == <<api, "/anime/zoro/info?id=", id>>

\* a slip: the second test looks at sub instead of dub
subOrDubSubFirst(r) ==
    IF r.sub > 0 /\ r.dub > 0 THEN "both"
    ELSE IF r.sub > 0 THEN "sub"
    ELSE "dub"

\* lines 86-91
subOrDub(r) ==
    IF r.sub > 0 /\ r.dub > 0 THEN "both"
    ELSE IF r.dub > 0 THEN "dub"
    ELSE "sub"

MapSearchResult(api, r) ==
    [id |-> r.id, title |-> r.title, url |-> InfoUrl(api, r.id), subOrDub |-> subOrDub(r)]

MapSearchResults(api, results) ==
    [i \in 1..Len(results) |-> MapSearchResult(api, results[i])]

\* lines 62-72: normalise, initialise the locals, enter the loop, fetch page 1
SearchEnter(api, query) ==
    LET keyword == normalizeQuery(query) IN
    [IdleFrame EXCEPT !.op = "search", !.pc = "search_fetch", !.arg = query,
                      !.keyword = keyword, !.page = 1, !.hasNext = TRUE,
                      !.fetched = <<SearchUrl(api, keyword, 1)>>]

SearchError(page, resp) ==
    [message |-> "Search failed", page |-> page, status |-> resp.status]

\* a slip: a failed page ends the loop and what was accumulated is returned
SearchResumePartial(api, f, resp) ==
    IF ~resp.ok
    THEN [f EXCEPT !.pc = "returned", !.received = Append(@, resp),
                   !.result = Returned(f.allResults)]
    ELSE LET all == f.allResults \o MapSearchResults(api, resp.body.results)
             next == resp.body.hasNextPage
             g == [f EXCEPT !.allResults = all, !.hasNext = next, !.page = f.page + 1,
                            !.received = Append(@, resp)]
         IN  IF next
             THEN [g EXCEPT !.fetched = Append(@, SearchUrl(api, f.keyword, f.page + 1))]
             ELSE [g EXCEPT !.pc = "returned", !.result = Returned(all)]

\* a slip: unshift instead of push, a page's results go before the earlier pages'
SearchResumePrepend(api, f, resp) ==
    IF ~resp.ok
    THEN [f EXCEPT !.pc = "thrown", !.received = Append(@, resp),
                   !.result = Thrown(SearchError(f.page, resp))]
    ELSE LET all == MapSearchResults(api, resp.body.results) \o f.allResults
             next == resp.body.hasNextPage
             g == [f EXCEPT !.allResults = all, !.hasNext = next, !.page = f.page + 1,
                            !.received = Append(@, resp)]
         IN  IF next
             THEN [g EXCEPT !.fetched = Append(@, SearchUrl(api, f.keyword, f.page + 1))]
             ELSE [g EXCEPT !.pc = "returned", !.result = Returned(all)]

\* lines 73-107: the page's response arrives; throw, loop to the next fetch, or return
SearchResume(api, f, resp) ==
    IF ~resp.ok
    THEN [f EXCEPT !.pc = "thrown", !.received = Append(@, resp),
                   !.result = Thrown(SearchError(f.page, resp))]
    ELSE LET all == f.allResults \o MapSearchResults(api, resp.body.results)
             next == resp.body.hasNextPage
             g == [f EXCEPT !.allResults = all, !.hasNext = next, !.page = f.page + 1,
                            !.received = Append(@, resp)]
         IN  IF next
             THEN [g EXCEPT !.fetched = Append(@, SearchUrl(api, f.keyword, f.page + 1))]
             ELSE [g EXCEPT !.pc = "returned", !.result = Returned(all)]

\* the host calls search with one of `queries`
search(c, queries) ==
    /\ calls[c].pc = "idle"
    /\ \E query \in queries :
          calls' = Resume(calls, c, SearchEnter(apiURL, query))
    /\ UNCHANGED apiURL

\* the awaited fetch of a page resolves with one of `responses`; the upstream
\* has at most MaxPages pages, so its last page reports no next page
SearchResponse(c, responses) ==
    /\ calls[c].pc = "search_fetch"
    /\ \E resp \in responses :
          /\ resp.ok /\ resp.body.hasNextPage => calls[c].page < MaxPages
          /\ calls' = Resume(calls, c, SearchResume(apiURL, calls[c], resp))
    /\ UNCHANGED apiURL

(***************************************************************************)
(* findEpisodes                                                            *)
(***************************************************************************)
WatchUrlRaw(api, id) == <<api, "/anime/zoro/watch/", id>>

MapEpisode(api, ep) ==
    [id |-> ep.id, number |-> ep.number, url |-> WatchUrlRaw(api, ep.id), title |-> ep.title]

\* lines 110-111: build the info URL and fetch it
EpisodesEnter(api, id) ==
    [IdleFrame EXCEPT !.op = "findEpisodes", !.pc = "info_fetch", !.arg = id,
                      !.fetched = <<InfoUrl(api, id)>>]

EpisodesError(id, resp) ==
    [message |-> "Failed to fetch episode info", id |-> id, status |-> resp.status]

\* lines 112-126: throw on a non-success status, else map every episode
EpisodesResume(api, f, resp) ==
    IF ~resp.ok
    THEN [f EXCEPT !.pc = "thrown", !.received = Append(@, resp),
                   !.result = Thrown(EpisodesError(f.arg, resp))]
    ELSE [f EXCEPT !.pc = "returned", !.received = Append(@, resp),
                   !.result = Returned([i \in 1..Len(resp.body.episodes) |->
                                            MapEpisode(api, resp.body.episodes[i])])]

findEpisodes(c, ids) ==
    /\ calls[c].pc = "idle"
    /\ \E id \in ids :
          calls' = Resume(calls, c, EpisodesEnter(apiURL, id))
    /\ UNCHANGED apiURL

InfoResponse(c, responses) ==
    /\ calls[c].pc = "info_fetch"
    /\ \E resp \in responses :
          calls' = Resume(calls, c, EpisodesResume(apiURL, calls[c], resp))
    /\ UNCHANGED apiURL

(***************************************************************************)
(* findEpisodeServer: the master playlist parser                           *)
(***************************************************************************)
StreamInf == <<"#","E","X","T","-","X","-","S","T","R","E","A","M","-","I","N","F",":">>
ResolutionEq == <<"R","E","S","O","L","U","T","I","O","N","=">>
English == <<"E","n","g","l","i","s","h">>

\* playlistText.split("\n")
RECURSIVE split(_)
split(text) ==
    LET N == {i \in 1..Len(text) : text[i] = "\n"} IN
    IF N = {} THEN <<text>>
    ELSE LET i == CHOOSE m \in N : \A n \in N : m <= n
         IN  <<SubSeq(text, 1, i - 1)>> \o split(SubSeq(text, i + 1, Len(text)))

\* masterEntry.url.replace(/\/[^/]*$/, "/"): cut after the last slash, if any
baseUrlOf(url) ==
    LET S == {i \in 1..Len(url) : url[i] = "/"} IN
    IF S = {} THEN url
    ELSE SubSeq(url, 1, CHOOSE m \in S : \A n \in S : m >= n)

\* /RESOLUTION=(\d+)x(\d+)/ matches at i
ResolutionAt(line, i) ==
    LET w == i + Len(ResolutionEq)
        x == DigitsEnd(line, w)
    IN  /\ MatchAt(line, i, ResolutionEq)
        /\ x > w
        /\ x <= Len(line) /\ line[x] = "x"
        /\ DigitsEnd(line, x + 1) > x + 1

\* line.match(/RESOLUTION=(\d+)x(\d+)/): <<>> for null, else <<m[1], m[2]>>
matchResolution(line) ==
    LET M == {i \in 1..Len(line) : ResolutionAt(line, i)} IN
    IF M = {} THEN <<>>
    ELSE LET i == CHOOSE m \in M : \A n \in M : m <= n
             w == i + Len(ResolutionEq)
             x == DigitsEnd(line, w)
         IN  <<SubSeq(line, w, x - 1), SubSeq(line, x + 1, DigitsEnd(line, x + 1) - 1)>>

\* a slip: the URI line is used as it stands, neither trimmed nor tested for emptiness
AcceptsUriUntrimmed(lines, i) ==
    /\ i + 1 <= Len(lines)
    /\ ~startsWith(lines[i + 1], <<"#">>)

\* lines 174-175: uri = lines[i + 1]?.trim(); if (uri && !uri.startsWith("#"))
AcceptsUri(lines, i) ==
    /\ i + 1 <= Len(lines)
    /\ trim(lines[i + 1]) # <<>>
    /\ ~startsWith(trim(lines[i + 1]), <<"#">>)

\* lines 167-183: the loop over the lines, from index i on
RECURSIVE VariantsFrom(_, _)
VariantsFrom(lines, i) ==
    IF i > Len(lines) THEN <<>>
    ELSE LET line == lines[i]
             m == matchResolution(line)
         IN  (IF startsWith(line, StreamInf) /\ m # <<>> /\ AcceptsUri(lines, i)
              THEN <<[res |-> m[2] \o <<"p">>, uri |-> trim(lines[i + 1])]>>
              ELSE <<>>)
             \o VariantsFrom(lines, i + 1)

parseVariants(playlistText) == VariantsFrom(split(playlistText), 1)

\* a slip: the pattern is matched with its case, /English/
isEnglishCaseSensitive(lang) == \E i \in 1..Len(lang) : MatchAt(lang, i, English)

\* /English/i.test(sub.lang)
isEnglish(lang) == \E i \in 1..Len(lang) : MatchAtCI(lang, i, English)

\* lines 190-195: idx is the zero-based position in watchData.subtitles
MapSubtitles(episodeId, subtitles) ==
    [k \in 1..Len(subtitles) |->
        [id |-> <<episodeId, "-sub-", k - 1>>,
         url |-> subtitles[k].url,
         language |-> subtitles[k].lang,
         isDefault |-> isEnglish(subtitles[k].lang)]]

\* lines 186-196
BuildVideoSources(episodeId, watchData, baseUrl, variants) ==
    [k \in 1..Len(variants) |->
        [url |-> baseUrl \o variants[k].uri,
         type |-> "m3u8",
         quality |-> variants[k].res,
         subtitles |-> MapSubtitles(episodeId, watchData.subtitles)]]

\* a slip: the last HLS entry instead of the first
findMasterEntryLast(sources) ==
    LET H == {i \in 1..Len(sources) : sources[i].isM3U8} IN
    IF H = {} THEN <<>> ELSE <<sources[CHOOSE m \in H : \A n \in H : m >= n]>>

\* watchData.sources.find((s) => s.isM3U8): <<>> for undefined, else <<entry>>
findMasterEntry(sources) ==
    LET H == {i \in 1..Len(sources) : sources[i].isM3U8} IN
    IF H = {} THEN <<>> ELSE <<sources[CHOOSE m \in H : \A n \in H : m <= n]>>

WatchUrl(api, id) == <<api, "/anime/zoro/watch/", encodeURIComponent(id)>>

\* lines 133-139: the server name, the watch URL and its fetch
ServerEnter(api, episode, server) ==
    [IdleFrame EXCEPT !.op = "findEpisodeServer", !.pc = "watch_fetch",
                      !.arg = [episode |-> episode, server |-> server],
                      !.serverName = IF server = "default" THEN "zoro" ELSE server,
                      !.fetched = <<WatchUrl(api, episode.id)>>]

WatchError(id, resp) ==
    [message |-> "Failed to fetch watch info", id |-> id, status |-> resp.status]
NoMasterError == [message |-> "No HLS master playlist found"]
PlaylistError(resp) ==
    [message |-> "Failed to fetch master playlist", status |-> resp.status]

\* a slip: a failed watch request is tried once more
WatchResumeRetry(f, resp) ==
    IF ~resp.ok
    THEN IF f.received = <<>>
         THEN [f EXCEPT !.received = Append(@, resp), !.fetched = Append(@, f.fetched[1])]
         ELSE [f EXCEPT !.pc = "thrown", !.received = Append(@, resp),
                        !.result = Thrown(WatchError(f.arg.episode.id, resp))]
    ELSE LET entry == findMasterEntry(resp.body.sources)
             g == [f EXCEPT !.watchData = resp.body, !.masterEntry = entry,
                            !.received = Append(@, resp)]
         IN  IF entry = <<>>
             THEN [g EXCEPT !.pc = "thrown", !.result = Thrown(NoMasterError)]
             ELSE [g EXCEPT !.pc = "playlist_fetch", !.fetched = Append(@, entry[1].url)]

\* lines 140-154: the watch response arrives; throw, or pick the entry and fetch it
WatchResume(f, resp) ==
    IF ~resp.ok
    THEN [f EXCEPT !.pc = "thrown", !.received = Append(@, resp),
                   !.result = Thrown(WatchError(f.arg.episode.id, resp))]
    ELSE LET entry == findMasterEntry(resp.body.sources)
             g == [f EXCEPT !.watchData = resp.body, !.masterEntry = entry,
                            !.received = Append(@, resp)]
         IN  IF entry = <<>>
             THEN [g EXCEPT !.pc = "thrown", !.result = Thrown(NoMasterError)]
             ELSE [g EXCEPT !.pc = "playlist_fetch", !.fetched = Append(@, entry[1].url)]

\* a slip: a manifest without any usable variant is treated as an error
PlaylistResumeStrict(f, resp) ==
    IF ~resp.ok \/ parseVariants(resp.body) = <<>>
    THEN [f EXCEPT !.pc = "thrown", !.received = Append(@, resp),
                   !.result = Thrown(PlaylistError(resp))]
    ELSE LET baseUrl == baseUrlOf(f.masterEntry[1].url)
             videoSources ==
                 BuildVideoSources(f.arg.episode.id, f.watchData, baseUrl,
                                   parseVariants(resp.body))
         IN  [f EXCEPT !.pc = "returned", !.received = Append(@, resp),
                       !.result = Returned([server |-> f.serverName,
                                            headers |-> <<>>,
                                            videoSources |-> videoSources])]

\* lines 155-202: the playlist response arrives; throw, or parse and return
PlaylistResume(f, resp) ==
    IF ~resp.ok
    THEN [f EXCEPT !.pc = "thrown", !.received = Append(@, resp),
                   !.result = Thrown(PlaylistError(resp))]
    ELSE LET playlistText == resp.body
             baseUrl == baseUrlOf(f.masterEntry[1].url)
             variants == parseVariants(playlistText)
             videoSources ==
                 BuildVideoSources(f.arg.episode.id, f.watchData, baseUrl, variants)
         IN  [f EXCEPT !.pc = "returned", !.received = Append(@, resp),
                       !.result = Returned([server |-> f.serverName,
                                            headers |-> <<>>,
                                            videoSources |-> videoSources])]

findEpisodeServer(c, episodes, servers) ==
    /\ calls[c].pc = "idle"
    /\ \E episode \in episodes, server \in servers :
          calls' = Resume(calls, c, ServerEnter(apiURL, episode, server))
    /\ UNCHANGED apiURL

WatchResponse(c, responses) ==
    /\ calls[c].pc = "watch_fetch"
    /\ \E resp \in responses :
          calls' = Resume(calls, c, WatchResume(calls[c], resp))
    /\ UNCHANGED apiURL

PlaylistResponse(c, responses) ==
    /\ calls[c].pc = "playlist_fetch"
    /\ \E resp \in responses :
          calls' = Resume(calls, c, PlaylistResume(calls[c], resp))
    /\ UNCHANGED apiURL

(***************************************************************************)
(* Inputs: queries built from numbers, ordinal suffixes, the word Season,  *)
(* another word and whitespace.                                            *)
(***************************************************************************)
QueryTokens ==
    {<<"3">>, <<"1","2">>, <<"s","t">>, <<"r","d">>, Season,
     <<"s","e","a","S","O","N">>, <<"x">>, <<" ">>, <<"\t">>}

RECURSIVE Concats(_, _)
Concats(tokens, n) ==
    IF n = 0 THEN {<<>>}
    ELSE LET P == Concats(tokens, n - 1) IN P \cup {p \o t : p \in P, t \in tokens}

Queries == Concats(QueryTokens, MaxTokens)

SeqsUpTo(S, n) == UNION {[1..k -> S] : k \in 0..n}

Ok(body) == [ok |-> TRUE, status |-> 200, body |-> body]
Fail(status) == [ok |-> FALSE, status |-> status, body |-> <<>>]

\* search: two queries, two kinds of upstream result
SearchQueries == {<<"x">>, <<"3","r","d"," ","S","e","a","s","o","n">>}

ResultKinds ==
    {[id |-> <<"a">>, title |-> "A", sub |-> 1, dub |-> 0],
     [id |-> <<"b">>, title |-> "B", sub |-> 2, dub |-> 1]}

PageResponses ==
    {Fail(404), Fail(500)} \cup
    {Ok([hasNextPage |-> h, results |-> rs]) :
        h \in BOOLEAN, rs \in SeqsUpTo(ResultKinds, MaxResults)}

SmallPageResponses ==
    {Fail(500)} \cup
    {Ok([hasNextPage |-> h, results |-> <<r>>]) : h \in BOOLEAN, r \in ResultKinds}

\* one page of results with every combination of sub and dub counts
CountedResults ==
    {[id |-> <<"a">>, title |-> "A", sub |-> sb, dub |-> db] :
        sb \in 0..MaxCount, db \in 0..MaxCount}

CountedPages ==
    {Ok([hasNextPage |-> FALSE, results |-> rs]) : rs \in SeqsUpTo(CountedResults, MaxResults)}

\* findEpisodes
EpisodeIds == {<<"e","1">>, <<"e","/","2">>}

InfoResponses ==
    {Fail(404),
     Ok([episodes |-> <<>>]),
     Ok([episodes |-> <<[id |-> <<"e","1">>, number |-> 1, title |-> "one"],
                        [id |-> <<"e","/","2">>, number |-> 2, title |-> "two"]>>])}

\* findEpisodeServer
Episodes == {[id |-> id, number |-> 1] : id \in EpisodeIds}
Servers == {"default", "server1"}

MasterUrl == <<"h",":","/","/","x","/","y","/","m">>
OtherUrl == <<"n">>
VideoUrl == <<"h",":","/","/","x","/","v">>

SourceKinds ==
    {[url |-> MasterUrl, isM3U8 |-> TRUE, type |-> "hls"],
     [url |-> OtherUrl, isM3U8 |-> TRUE, type |-> "hls"],
     [url |-> VideoUrl, isM3U8 |-> FALSE, type |-> "mp4"]}

SubtitleKinds ==
    {[url |-> <<"s","1">>, lang |-> English],
     [url |-> <<"s","2">>, lang |-> <<"e","n","g","l","i","s","h"," ","(","U","S",")">>],
     [url |-> <<"s","3">>, lang |-> <<"S","p","a","n","i","s","h">>],
     [url |-> <<"s","4">>, lang |-> <<"E","n","g","l">>]}

WatchResponses ==
    {Fail(404)} \cup
    {Ok([sources |-> ss, subtitles |-> ts]) :
        ss \in SeqsUpTo(SourceKinds, MaxSources), ts \in SeqsUpTo(SubtitleKinds, MaxSubs)}

SmallWatchResponses ==
    {Fail(404),
     Ok([sources |-> <<>>, subtitles |-> <<>>]),
     Ok([sources |-> <<[url |-> VideoUrl, isM3U8 |-> FALSE, type |-> "mp4"],
                       [url |-> MasterUrl, isM3U8 |-> TRUE, type |-> "hls"]>>,
         subtitles |-> <<[url |-> <<"s","1">>, lang |-> English]>>]),
     Ok([sources |-> <<[url |-> OtherUrl, isM3U8 |-> TRUE, type |-> "hls"]>>,
         subtitles |-> <<>>])}

ManifestWatchResponses ==
    {Fail(404),
     Ok([sources |-> <<>>, subtitles |-> <<>>]),
     Ok([sources |-> <<[url |-> VideoUrl, isM3U8 |-> FALSE, type |-> "mp4"],
                       [url |-> MasterUrl, isM3U8 |-> TRUE, type |-> "hls"]>>,
         subtitles |-> <<[url |-> <<"s","1">>, lang |-> English]>>])}

\* the lines a master playlist is made of
Res720 == StreamInf \o ResolutionEq \o <<"1","2","x","7">>
Res45 == StreamInf \o <<"B","=","1",",">> \o ResolutionEq \o <<"3","x","4","5">>
NoRes == StreamInf \o <<"B","=","1">>

LineKinds ==
    {Res720, Res45, NoRes,
     <<"a">>, <<" ","b","\r">>, <<>>, <<"#","c">>, <<" ","#","c">>,
     ResolutionEq \o <<"1","2","x","7">>}

RECURSIVE join(_)
join(lines) ==
    IF lines = <<>> THEN <<>>
    ELSE IF Len(lines) = 1 THEN lines[1]
    ELSE lines[1] \o <<"\n">> \o join(Tail(lines))

PlaylistTexts == {join(ls) : ls \in SeqsUpTo(LineKinds, MaxLines)}

PlaylistResponses == {Fail(403)} \cup {Ok(t) : t \in PlaylistTexts}

SmallPlaylistResponses ==
    {Fail(403), Ok(<<>>),
     Ok(join(<<Res720, <<"a">>, Res45, <<"b">>>>)),
     Ok(join(<<NoRes, <<"a">>, Res720>>))}

OneCall == {"c1"}

InitOne ==
    /\ apiURL = ApiURL
    /\ calls = [c \in OneCall |-> IdleFrame]

InitAll ==
    /\ apiURL = ApiURL
    /\ calls = [c \in CallIds |-> IdleFrame]

\* the normalizer alone: search is called with every query
NextNormalize == \E c \in OneCall : search(c, Queries)

SpecNormalize == InitOne /\ [][NextNormalize]_vars

\* one search call against an upstream of up to MaxPages pages
NextSearch ==
    \E c \in OneCall :
        \/ search(c, SearchQueries)
        \/ SearchResponse(c, PageResponses)

SpecSearch == InitOne /\ [][NextSearch]_vars

\* one search call against one page with every sub/dub count
NextCounts ==
    \E c \in OneCall :
        \/ search(c, SearchQueries)
        \/ SearchResponse(c, CountedPages)

SpecCounts == InitOne /\ [][NextCounts]_vars

\* one findEpisodeServer call against every watch response
NextServer ==
    \E c \in OneCall :
        \/ findEpisodeServer(c, Episodes, Servers)
        \/ WatchResponse(c, WatchResponses)
        \/ PlaylistResponse(c, SmallPlaylistResponses)

SpecServer == InitOne /\ [][NextServer]_vars

\* one findEpisodeServer call against every master playlist
NextManifest ==
    \E c \in OneCall :
        \/ findEpisodeServer(c, {[id |-> <<"e","1">>, number |-> 1]}, Servers)
        \/ WatchResponse(c, ManifestWatchResponses)
        \/ PlaylistResponse(c, PlaylistResponses)

SpecManifest == InitOne /\ [][NextManifest]_vars

\* the host's calls into one Provider instance, interleaved at their awaits
Next ==
    \E c \in CallIds :
        \/ search(c, SearchQueries)
        \/ SearchResponse(c, SmallPageResponses)
        \/ findEpisodes(c, EpisodeIds)
        \/ InfoResponse(c, InfoResponses)
        \/ findEpisodeServer(c, Episodes, Servers)
        \/ WatchResponse(c, SmallWatchResponses)
        \/ PlaylistResponse(c, SmallPlaylistResponses)

Spec == InitAll /\ [][Next]_vars

(***************************************************************************)
(* Properties.  A frame's log: fetched[k] is the k-th request the call     *)
(* issued, received[k] the k-th response it was resumed with.              *)
(***************************************************************************)
IsServerCall(c) == calls[c].op = "findEpisodeServer"
IsSearchCall(c) == calls[c].op = "search"
HasReturned(c) == calls[c].pc = "returned"
HasThrown(c) == calls[c].pc = "thrown"

\* the k-th smallest element of a set of indices
NthIndex(I, k) == CHOOSE i \in I : Cardinality({j \in I : j <= i}) = k

\* the STREAM-INF lines that carry a RESOLUTION attribute
ResolutionLines(lines) ==
    {i \in 1..Len(lines) :
        startsWith(lines[i], StreamInf) /\ matchResolution(lines[i]) # <<>>}

\* one {quality, url} per line of I, in the order of the lines
ExpectedSources(lines, base, I) ==
    [k \in 1..Cardinality(I) |->
        LET i == NthIndex(I, k) IN
        [quality |-> matchResolution(lines[i])[2] \o <<"p">>,
         url |-> base \o trim(lines[i + 1])]]

QualityAndUrl(videoSources) ==
    [k \in 1..Len(videoSources) |->
        [quality |-> videoSources[k].quality, url |-> videoSources[k].url]]

\* the next line is present (the empty remainder after a final line break is
\* counted as no line) and does not begin with "#"
NextLineNotComment(lines, i) ==
    /\ i + 1 <= Len(lines)
    /\ ~(i + 1 = Len(lines) /\ lines[i + 1] = <<>>)
    /\ (lines[i + 1] = <<>> \/ lines[i + 1][1] # "#")

\* the next line is present and its first non-whitespace character is not "#"
NextLineHasUri(lines, i) ==
    /\ i + 1 <= Len(lines)
    /\ \E k \in 1..Len(lines[i + 1]) :
          /\ ~IsSpace(lines[i + 1][k])
          /\ lines[i + 1][k] # "#"
          /\ \A j \in 1..(k - 1) : IsSpace(lines[i + 1][j])

PlaylistLines(c) == split(calls[c].received[2].body)

ReturnedSources(c) == QualityAndUrl(calls[c].result.value.videoSources)

\* C1 as stated: videoSources has one entry per STREAM-INF line with a RESOLUTION
\* whose following line is present and does not begin with "#", in playlist order,
\* with quality "<height>p" and url = base path + that line trimmed.
C1_NextLinePresentNotComment ==
    \A c \in DOMAIN calls :
        IsServerCall(c) /\ HasReturned(c) =>
            ReturnedSources(c) =
                ExpectedSources(PlaylistLines(c), baseUrlOf(calls[c].fetched[2]),
                    {i \in ResolutionLines(PlaylistLines(c)) :
                        NextLineNotComment(PlaylistLines(c), i)})

\* C1 amended: one entry per STREAM-INF line with a RESOLUTION whose following line
\* is present and, once trimmed, is non-empty and does not begin with "#"; in
\* playlist order, no re-sorting, no deduplication, quality "<height>p",
\* url = base path + that line trimmed; every other STREAM-INF line gives no entry.
C1_VariantsFollowPlaylist ==
    \A c \in DOMAIN calls :
        IsServerCall(c) /\ HasReturned(c) =>
            ReturnedSources(c) =
                ExpectedSources(PlaylistLines(c), baseUrlOf(calls[c].fetched[2]),
                    {i \in ResolutionLines(PlaylistLines(c)) :
                        NextLineHasUri(PlaylistLines(c), i)})

\* two variants returned in playlist order, the larger height first
C1_Witness ==
    \E c \in DOMAIN calls :
        /\ IsServerCall(c) /\ HasReturned(c)
        /\ Len(calls[c].result.value.videoSources) = 2
        /\ calls[c].result.value.videoSources[1].quality = <<"4","5","p">>
        /\ calls[c].result.value.videoSources[2].quality = <<"7","p">>
        /\ calls[c].result.value.videoSources[2].url = <<"h",":","/","/","x","/","y","/","b">>

HlsIndices(sources) == {i \in 1..Len(sources) : sources[i].isM3U8 = TRUE}

WatchSucceeded(c) ==
    IsServerCall(c) /\ Len(calls[c].received) >= 1 /\ calls[c].received[1].ok

\* C2: a successful watch response without an isM3U8 source makes the call throw
\* "No HLS master playlist found": no EpisodeServer is returned and the manifest is
\* never requested; with isM3U8 sources, the url of the first one is the one fetched.
C2_NoHlsIsFatal ==
    \A c \in DOMAIN calls :
        WatchSucceeded(c) =>
            LET sources == calls[c].received[1].body.sources
                H == HlsIndices(sources)
            IN  IF H = {}
                THEN /\ HasThrown(c)
                     /\ calls[c].result.kind = "error"
                     /\ calls[c].result.error.message = "No HLS master playlist found"
                     /\ Len(calls[c].fetched) = 1
                ELSE /\ Len(calls[c].fetched) = 2
                     /\ \E i \in H : /\ \A j \in H : i <= j
                                     /\ calls[c].fetched[2] = sources[i].url

C2_Witness ==
    \E c \in DOMAIN calls :
        /\ WatchSucceeded(c)
        /\ Len(calls[c].received[1].body.sources) = 2
        /\ HlsIndices(calls[c].received[1].body.sources) = {}
        /\ HasThrown(c)

ManifestSucceeded(c) ==
    WatchSucceeded(c) /\ Len(calls[c].received) = 2 /\ calls[c].received[2].ok

\* C3: once both fetches have succeeded the call returns, whatever the manifest
\* text: {server, headers = empty map, videoSources}, videoSources possibly empty.
C3_AnyManifestReturns ==
    \A c \in DOMAIN calls :
        ManifestSucceeded(c) =>
            /\ HasReturned(c)
            /\ calls[c].result.kind = "value"
            /\ DOMAIN calls[c].result.value = {"server", "headers", "videoSources"}
            /\ calls[c].result.value.server =
                  (IF calls[c].arg.server = "default" THEN "zoro" ELSE calls[c].arg.server)
            /\ DOMAIN calls[c].result.value.headers = {}
            /\ DOMAIN calls[c].result.value.videoSources =
                  1..Len(calls[c].result.value.videoSources)

\* a manifest of malformed STREAM-INF lines only: returned, with no video source
C3_Witness ==
    \E c \in DOMAIN calls :
        /\ ManifestSucceeded(c)
        /\ startsWith(calls[c].received[2].body, StreamInf)
        /\ HasReturned(c)
        /\ calls[c].result.value.videoSources = <<>>

\* the pages a search call has requested so far are 1, 2, ... in order, each once
RequestsPagesInOrder(c) ==
    calls[c].fetched =
        [k \in 1..Len(calls[c].fetched) |-> SearchUrl(apiURL, calls[c].keyword, k)]

RECURSIVE ConcatPages(_, _)
ConcatPages(api, pages) ==
    IF pages = <<>> THEN <<>>
    ELSE ConcatPages(api, SubSeq(pages, 1, Len(pages) - 1))
         \o MapSearchResults(api, pages[Len(pages)].body.results)

AllOk(received) == \A k \in 1..Len(received) : received[k].ok

\* C4: against pages 1..N-1 with hasNextPage = true and page N with hasNextPage =
\* false, all successful, search requests pages 1, 2, ..., N in that order, each
\* once, then returns the mapped results of pages 1..N concatenated in page order.
C4_PagesInOrder ==
    \A c \in DOMAIN calls :
        IsSearchCall(c) =>
            LET received == calls[c].received
                N == Len(received)
            IN  /\ RequestsPagesInOrder(c)
                /\ AllOk(received) /\ (\A k \in 1..N : received[k].body.hasNextPage) =>
                      /\ calls[c].pc = "search_fetch"
                      /\ Len(calls[c].fetched) = N + 1
                /\ /\ N >= 1 /\ AllOk(received)
                   /\ \A k \in 1..N : received[k].body.hasNextPage = (k < N)
                   => /\ HasReturned(c)
                      /\ Len(calls[c].fetched) = N
                      /\ calls[c].result = Returned(ConcatPages(apiURL, received))

\* three pages, each with results, returned as one list
C4_Witness ==
    \E c \in DOMAIN calls :
        /\ IsSearchCall(c) /\ HasReturned(c)
        /\ Len(calls[c].received) = MaxPages
        /\ \A k \in 1..MaxPages : Len(calls[c].received[k].body.results) = 2
        /\ calls[c].received[1].body.results # calls[c].received[2].body.results
        /\ Len(calls[c].result.value) = 2 * MaxPages

\* C5: when the request for page k returns a non-success status, search throws an
\* error naming page k and the status: no result list is returned, page k is not
\* requested again and no later page is requested.
C5_FailedPageIsFatal ==
    \A c \in DOMAIN calls :
        IsSearchCall(c) =>
            \A k \in 1..Len(calls[c].received) :
                ~calls[c].received[k].ok =>
                    /\ k = Len(calls[c].received)
                    /\ HasThrown(c)
                    /\ calls[c].result.kind = "error"
                    /\ calls[c].result.error.page = k
                    /\ calls[c].result.error.status = calls[c].received[k].status
                    /\ Len(calls[c].fetched) = k
                    /\ RequestsPagesInOrder(c)

\* page 2 fails after page 1 delivered results: the call threw, the results are lost
C5_Witness ==
    \E c \in DOMAIN calls :
        /\ IsSearchCall(c) /\ HasThrown(c)
        /\ Len(calls[c].received) = 2
        /\ calls[c].allResults # <<>>
        /\ calls[c].result.error.page = 2
        /\ calls[c].result.error.status = 500

\* the occurrences of the word Season, in any case
SeasonAt(s) == {i \in 1..Len(s) : MatchAtCI(s, i, Season)}

\* Season occurs at most once, and is followed by whitespace or ends the query
SeasonOnceAndDelimited(s) ==
    /\ Cardinality(SeasonAt(s)) <= 1
    /\ \A i \in SeasonAt(s) : i + Len(Season) > Len(s) \/ IsSpace(s[i + Len(Season)])

\* C6 as stated: normalizeQuery(normalizeQuery(x)) = normalizeQuery(x) for every
\* query x, also when Season occurs more than once.
C6_IdempotentOnAllQueries ==
    \A c \in DOMAIN calls :
        IsSearchCall(c) => normalizeQuery(calls[c].keyword) = calls[c].keyword

\* C6 amended: normalizeQuery(normalizeQuery(x)) = normalizeQuery(x) for every query
\* x in which Season occurs at most once and is followed by whitespace or by the end
\* of the query.
C6_IdempotentOnDelimitedSeason ==
    \A c \in DOMAIN calls :
        IsSearchCall(c) /\ SeasonOnceAndDelimited(calls[c].arg) =>
            normalizeQuery(calls[c].keyword) = calls[c].keyword

\* "3rd Season" (with any whitespace run) has been normalised to "3"
C6_Witness ==
    \E c \in DOMAIN calls :
        /\ IsSearchCall(c)
        /\ SeasonOnceAndDelimited(calls[c].arg)
        /\ SeasonAt(calls[c].arg) # {}
        /\ startsWith(calls[c].arg, <<"3","r","d">>)
        /\ calls[c].keyword = <<"3">>

LowerCase(s) == [k \in 1..Len(s) |-> ToLower(s[k])]

ContainsEnglish(lang) ==
    \E i \in 1..Len(lang) :
        /\ i + 6 <= Len(lang)
        /\ SubSeq(LowerCase(lang), i, i + 6) = <<"e","n","g","l","i","s","h">>

\* C7: every video source of the result carries the same subtitle list: one track
\* per upstream subtitle, in upstream order, the track at zero-based position i with
\* id "<episodeId>-sub-<i>", the upstream url and language, and isDefault = true
\* exactly when the language contains "english", compared without case.
C7_SubtitlesShared ==
    \A c \in DOMAIN calls :
        IsServerCall(c) /\ HasReturned(c) =>
            LET upstream == calls[c].received[1].body.subtitles
                videoSources == calls[c].result.value.videoSources
            IN  \A v \in 1..Len(videoSources) :
                    /\ Len(videoSources[v].subtitles) = Len(upstream)
                    /\ \A k \in 1..Len(upstream) :
                          LET track == videoSources[v].subtitles[k] IN
                          /\ track.id = <<calls[c].arg.episode.id, "-sub-", k - 1>>
                          /\ track.url = upstream[k].url
                          /\ track.language = upstream[k].lang
                          /\ track.isDefault = ContainsEnglish(upstream[k].lang)

\* two variants, both with "english (US)" as default track 0 and "Spanish" as track 1
C7_Witness ==
    \E c \in DOMAIN calls :
        /\ IsServerCall(c) /\ HasReturned(c)
        /\ Len(calls[c].result.value.videoSources) = 2
        /\ \A v \in 1..2 :
              LET subs == calls[c].result.value.videoSources[v].subtitles IN
              /\ Len(subs) = 2
              /\ subs[1].language[1] = "e" /\ subs[1].isDefault
              /\ subs[2].language[1] = "S" /\ ~subs[2].isDefault
              /\ subs[2].id[3] = 1

ExpectedSubOrDub(sub, dub) ==
    CASE sub > 0 /\ dub > 0 -> "both"
      [] ~(sub > 0) /\ dub > 0 -> "dub"
      [] ~(dub > 0) -> "sub"

\* C8: an upstream result with counts sub and dub is mapped to "both" when both are
\* positive, else to "dub" when dub is positive, else to "sub"; every returned
\* entry's subOrDub is one of "sub", "dub", "both".
C8_SubOrDub ==
    \A c \in DOMAIN calls :
        IsSearchCall(c) /\ HasReturned(c) =>
            LET upstream == calls[c].received[1].body.results
                entries == calls[c].result.value
            IN  /\ Len(entries) = Len(upstream)
                /\ \A k \in 1..Len(entries) :
                      /\ entries[k].subOrDub =
                            ExpectedSubOrDub(upstream[k].sub, upstream[k].dub)
                      /\ entries[k].subOrDub \in {"sub", "dub", "both"}

\* a result with sub = 0 and dub = 0 was returned as "sub", next to a "dub" one
C8_Witness ==
    \E c \in DOMAIN calls :
        /\ IsSearchCall(c) /\ HasReturned(c)
        /\ Len(calls[c].result.value) = 2
        /\ calls[c].received[1].body.results[1].sub = 0
        /\ calls[c].received[1].body.results[1].dub = 0
        /\ calls[c].result.value[1].subOrDub = "sub"
        /\ calls[c].result.value[2].subOrDub = "dub"

\* the step f -> g of a findEpisodeServer frame received a failure: a non-success
\* status, or a watch response without an isM3U8 source
ReceivedFailure(f, g) ==
    /\ Len(g.received) = Len(f.received) + 1
    /\ LET resp == g.received[Len(g.received)] IN
       \/ ~resp.ok
       \/ Len(g.received) = 1 /\ HlsIndices(resp.body.sources) = {}

ServerStepInOrder(f, g) ==
    g.op = "findEpisodeServer" =>
        \* at most two requests: the watch URL, then the manifest URL
        /\ Len(g.fetched) <= 2
        /\ Len(g.fetched) >= 1 /\ g.fetched[1] = WatchUrl(apiURL, g.arg.episode.id)
        /\ Len(g.fetched) \in {Len(f.fetched), Len(f.fetched) + 1}
        \* the manifest is requested in the step that received a successful watch response
        /\ Len(g.fetched) = 2 =>
              /\ g.received[1].ok
              /\ g.fetched[2] \in {g.received[1].body.sources[i].url :
                                      i \in HlsIndices(g.received[1].body.sources)}
              /\ Len(f.fetched) = 1 => Len(f.received) = 0 /\ Len(g.received) = 1
        \* the first failure ends the call in error, with no further request
        /\ ReceivedFailure(f, g) =>
              g.pc = "thrown" /\ g.result.kind = "error" /\ g.fetched = f.fetched
        /\ f.pc = "thrown" => g = f

\* C9: in one findEpisodeServer call the manifest is requested only after the watch
\* request returned a success status, each request is issued at most once, and after
\* the first failure the call ends in error: no further request, no EpisodeServer.
C9_FetchesInOrder ==
    [][\A c \in DOMAIN calls : ServerStepInOrder(calls[c], calls'[c])]_vars

\* the manifest request failed after a successful watch request: thrown, two requests
C9_Witness ==
    \E c \in DOMAIN calls :
        /\ IsServerCall(c) /\ HasThrown(c)
        /\ Len(calls[c].fetched) = 2
        /\ Len(calls[c].received) = 2
        /\ calls[c].received[1].ok /\ ~calls[c].received[2].ok
        /\ calls[c].result.kind = "error"

\* a call run alone: entered with its arguments, resumed with each response in turn
EnterAlone(api, op, arg) ==
    CASE op = "search" -> SearchEnter(api, arg)
      [] op = "findEpisodes" -> EpisodesEnter(api, arg)
      [] op = "findEpisodeServer" -> ServerEnter(api, arg.episode, arg.server)
      [] OTHER -> IdleFrame

ResumeAlone(api, f, resp) ==
    CASE f.pc = "search_fetch" -> SearchResume(api, f, resp)
      [] f.pc = "info_fetch" -> EpisodesResume(api, f, resp)
      [] f.pc = "watch_fetch" -> WatchResume(f, resp)
      [] f.pc = "playlist_fetch" -> PlaylistResume(f, resp)
      [] OTHER -> f

RECURSIVE RunAlone(_, _, _, _)
RunAlone(api, op, arg, received) ==
    IF received = <<>> THEN EnterAlone(api, op, arg)
    ELSE ResumeAlone(api, RunAlone(api, op, arg, SubSeq(received, 1, Len(received) - 1)),
                     received[Len(received)])

\* C10: with calls interleaved at their awaits, each call's locals, requests and
\* outcome are those of the same call run alone against the responses it received,
\* and the Provider's field apiURL is never modified.
C10_CallsAreIsolated ==
    /\ apiURL = ApiURL
    /\ \A c \in DOMAIN calls :
          calls[c] = RunAlone(ApiURL, calls[c].op, calls[c].arg, calls[c].received)

\* two searches in flight at once, on different pages with different accumulators
C10_Witness ==
    /\ calls["c1"].pc = "search_fetch" /\ calls["c2"].pc = "search_fetch"
    /\ calls["c1"].page = 3 /\ calls["c2"].page = 2
    /\ Len(calls["c1"].allResults) = 2
    /\ Len(calls["c2"].allResults) = 1
    /\ calls["c2"].allResults[1] # calls["c1"].allResults[1]

====
